---- MODULE Spec2Model ----
(***************************************************************************)
(* newmoon_fullmoon.py as a state machine.                                 *)
(*                                                                         *)
(* Instants are whole seconds since 1970-01-01T00:00Z, which is            *)
(* START_DATE, so a datetime difference's total_seconds() is a plain       *)
(* subtraction.  Python's None is the empty sequence and a bound value x   *)
(* is <<x>>.  A DataFrame is [columns, rows]; a row of a match table       *)
(* carries, besides the columns the script writes, the position `row` of   *)
(* its earthquake in eq_df (the label iterrows() yields and the script     *)
(* binds to `_`).  The magnitude and place columns are copied through      *)
(* unchanged by the script and are left out.                               *)
(***************************************************************************)
EXTENDS Integers, Sequences, FiniteSets, TLC

VARIABLES
    pc,             \* the section of the script that runs next
    error,          \* "none", or the uncaught exception that ended the run
    cfg,            \* START_DATE, END_DATE and the sampling step of the sweep
    eph,            \* the loaded ephemeris: the instants it covers, lo..hi,
                    \* and the Earth-Moon distances km it can return
    eq_df,          \* the filtered earthquake catalog
    new_moons, full_moons,
    perigees, t, prev_dist, prev_time,
    history,        \* distances the sweep has sampled, kept when history.on
    row, results,   \* find_tidal_matches: next catalog position, local list
    df_new, df_full, df_new_tight, df_full_tight,
    written,        \* the output tables written so far, in order
    probe           \* one call of nearest_time: its arguments and its result

vars == <<pc, error, cfg, eph, eq_df, new_moons, full_moons, perigees, t,
          prev_dist, prev_time, history, row, results, df_new, df_full,
          df_new_tight, df_full_tight, written, probe>>

-----------------------------------------------------------------------------
(* Configuration                                                           *)

NEW_MOON_WINDOW_HOURS == 36
PERIGEE_WINDOW_DAYS == 2
PERIGEE_STEP_HOURS == 6
DELTA_LAT_THRESHOLD == 10
START_DATE == 0

HourSeconds == 3600
DaySeconds == 86400

\* The script sweeps 1970..2025; the model sweeps SpanHours hours.
SpanHours == 49
END_DATE == START_DATE + SpanHours * HourSeconds

MaxQuakes == 2      \* features in the catalog file
MaxDist == 2        \* distinct Earth-Moon distances of a loaded ephemeris
SweepDist == 3      \* the same, when the sweep is checked on its own
SweepSamples == 4   \* steps of the sweep when it is checked on its own
MaxProbeTime == 4   \* instants of a stand-alone nearest_time call
MaxProbeLen == 3    \* length of its time_list

None == <<>>
Some(x) == <<x>>

Abs(x) == IF x < 0 THEN -x ELSE x

Range(s) == {s[i] : i \in 1..Len(s)}

SeqsUpTo(S, n) == UNION {[1..k -> S] : k \in 0..n}

RECURSIVE GCD(_, _)
GCD(a, b) == IF b = 0 THEN a ELSE GCD(b, a % b)

\* A true division a / b of two non-negative numbers, kept exact.
Ratio(a, b) == LET g == GCD(a, b) IN [num |-> a \div g, den |-> b \div g]

-----------------------------------------------------------------------------
(* The ephemeris: the Earth-Moon distance is drawn sample by sample in the *)
(* sweep; the sub-points are a fixed synthetic table, a pure function of   *)
(* the instant.                                                            *)

DistKm == eph.km

StepSeconds == PERIGEE_STEP_HOURS * HourSeconds

EphCovers(tm) == eph.lo <= tm /\ tm <= eph.hi

MoonLat(tm) == -12 + ((2 * (tm \div StepSeconds)) % 5)
MoonLon(tm) == 170 - 14 * (tm \div HourSeconds)
SunLat(tm) == -21 + (tm \div DaySeconds)
SunLon(tm) == 180 - 15 * (tm \div HourSeconds)

subpoint(body, dt) ==
    IF ~EphCovers(dt) THEN [raised |-> TRUE]
    ELSE IF body = "moon"
         THEN [raised |-> FALSE, lat |-> MoonLat(dt), lon |-> MoonLon(dt)]
         ELSE [raised |-> FALSE, lat |-> SunLat(dt), lon |-> SunLon(dt)]

-----------------------------------------------------------------------------
(* Helper functions                                                        *)

\* np.argmin: the first index holding the minimum.
ArgMinLast(deltas) ==
    CHOOSE i \in 1..Len(deltas) :
        /\ \A j \in 1..Len(deltas) : deltas[i] <= deltas[j]
        /\ \A j \in (i+1)..Len(deltas) : deltas[j] > deltas[i]

ArgMin(deltas) ==
    CHOOSE i \in 1..Len(deltas) :
        /\ \A j \in 1..Len(deltas) : deltas[i] <= deltas[j]
        /\ \A j \in 1..(i-1) : deltas[j] > deltas[i]

nearest_time(target, time_list) ==
    LET deltas == [i \in 1..Len(time_list) |-> Abs(target - time_list[i])]
    IN IF time_list = <<>>
       THEN [raised |-> TRUE]       \* argmin of an empty sequence: ValueError
       ELSE LET idx == ArgMin(deltas)
            IN [raised |-> FALSE, time |-> time_list[idx], sec |-> deltas[idx]]

DataFrame(records) ==
    [columns |-> IF records = <<>> THEN {} ELSE DOMAIN records[1],
     rows |-> records]

NoFrame == [columns |-> {}, rows |-> <<>>]

\* An uncaught exception ends the script where it is.
Raise(err) ==
    /\ error' = err
    /\ UNCHANGED <<pc, cfg, eph, eq_df, new_moons, full_moons, perigees, t,
                   prev_dist, prev_time, history, row, results, df_new,
                   df_full, df_new_tight, df_full_tight, written, probe>>

Running(section) == pc = section /\ error = "none"

-----------------------------------------------------------------------------
(* Load earthquakes                                                        *)

QuakeInstants == {24 * HourSeconds, 48 * HourSeconds, 48 * HourSeconds + 1}

\* The features of the catalog file: one that lacks a property, one whose
\* time is null, and ones timed inside and outside [START_DATE, END_DATE].
Features ==
    {[ok |-> FALSE, t_ms |-> None], [ok |-> TRUE, t_ms |-> None]}
    \cup {[ok |-> TRUE, t_ms |-> Some(1000 * q)] :
             q \in QuakeInstants \cup {START_DATE - 1, END_DATE + 1}}

RECURSIVE ParseFeatures(_)
ParseFeatures(features) ==
    IF features = <<>> THEN <<>>
    ELSE LET feature == Head(features)
             rest == ParseFeatures(Tail(features))
         IN IF ~feature.ok \/ feature.t_ms = None THEN rest
            ELSE LET qt == feature.t_ms[1] \div 1000
                 IN IF ~(cfg.start <= qt /\ qt <= cfg.end) THEN rest
                    ELSE <<[quake_time |-> qt]>> \o rest

LoadEarthquakes ==
    /\ Running("load_earthquakes")
    /\ \E features \in SeqsUpTo(Features, MaxQuakes) :
           eq_df' = DataFrame(ParseFeatures(features))
    /\ pc' = "load_ephemeris"
    /\ UNCHANGED <<error, cfg, eph, new_moons, full_moons, perigees, t,
                   prev_dist, prev_time, history, row, results, df_new,
                   df_full, df_new_tight, df_full_tight, written, probe>>

-----------------------------------------------------------------------------
(* Load ephemeris; New & Full Moons                                        *)

\* An ephemeris file covering the whole window, and one that ends early.
EphemerisFiles ==
    {[lo |-> START_DATE - DaySeconds, hi |-> END_DATE + DaySeconds,
      km |-> 1..MaxDist],
     [lo |-> START_DATE - DaySeconds, hi |-> END_DATE - 1, km |-> 1..MaxDist]}

LoadEphemeris ==
    /\ Running("load_ephemeris")
    /\ eph' \in EphemerisFiles
    /\ pc' = "moon_phases"
    /\ UNCHANGED <<error, cfg, eq_df, new_moons, full_moons, perigees, t,
                   prev_dist, prev_time, history, row, results, df_new,
                   df_full, df_new_tight, df_full_tight, written, probe>>

PhaseInstants == {12 * HourSeconds, 36 * HourSeconds}

\* What almanac.find_discrete returns: phase events in chronological order,
\* each with its phase code 0..3.
PhaseEvents ==
    {ev \in SeqsUpTo([time : PhaseInstants, p : 0..3], Cardinality(PhaseInstants)) :
        \A i \in 1..(Len(ev) - 1) : ev[i].time < ev[i+1].time}

RECURSIVE PhaseTimes(_, _)
PhaseTimes(events, code) ==
    IF events = <<>> THEN <<>>
    ELSE IF Head(events).p = code
         THEN <<Head(events).time>> \o PhaseTimes(Tail(events), code)
         ELSE PhaseTimes(Tail(events), code)

ComputePhases ==
    /\ Running("moon_phases")
    /\ IF ~(EphCovers(cfg.start) /\ EphCovers(cfg.end))
       THEN Raise("EphemerisRangeError")
       ELSE /\ \E events \in PhaseEvents :
                   /\ new_moons' = PhaseTimes(events, 0)
                   /\ full_moons' = PhaseTimes(events, 2)
            /\ pc' = "perigees"
            /\ t' = cfg.start
            /\ perigees' = <<>>
            /\ prev_dist' = None
            /\ prev_time' = None
            /\ UNCHANGED <<error, cfg, eph, eq_df, history, row, results,
                           df_new, df_full, df_new_tight, df_full_tight,
                           written, probe>>

-----------------------------------------------------------------------------
(* Lunar perigees                                                          *)

\* Line 94: the sample is farther than the previous one.
IsRising(prev, dist) == prev # None /\ dist > prev[1]

\* One pass of the while loop.  The ephemeris is a function of the instant:
\* an instant sampled again (a step of 0) has the distance it had.
SweepStep ==
    /\ Running("perigees")
    /\ t <= cfg.end
    /\ IF ~EphCovers(t)
       THEN Raise("EphemerisRangeError")
       ELSE \E dist \in DistKm :
            /\ prev_time = Some(t) => prev_dist = Some(dist)
            /\ perigees' = IF IsRising(prev_dist, dist)
                           THEN Append(perigees, prev_time[1])
                           ELSE perigees
            /\ prev_dist' = Some(dist)
            /\ prev_time' = Some(t)
            /\ t' = t + cfg.step
            /\ history' = IF history.on /\ prev_time # Some(t)
                          THEN [history EXCEPT !.samples = Append(@, dist)]
                          ELSE history
            /\ UNCHANGED <<pc, error, cfg, eph, eq_df, new_moons, full_moons,
                           row, results, df_new, df_full, df_new_tight,
                           df_full_tight, written, probe>>

SweepDone ==
    /\ Running("perigees")
    /\ ~(t <= cfg.end)
    /\ pc' = "match_new"
    /\ row' = 1
    /\ results' = <<>>
    /\ UNCHANGED <<error, cfg, eph, eq_df, new_moons, full_moons, perigees, t,
                   prev_dist, prev_time, history, df_new, df_full,
                   df_new_tight, df_full_tight, written, probe>>

-----------------------------------------------------------------------------
(* Tidal match function                                                    *)

\* Lines 126 and 130: the offset lies outside the window.
OutsideWindowStrict(sec, window) == sec >= window

OutsideWindow(sec, window) == sec > window

\* Lines 133-134: the instant the sub-points are taken at.
AlignmentAtQuake(qt, phase_time, pg_time) == qt

AlignmentTime(qt, phase_time, pg_time) == pg_time

\* Line 138: results.append.
AppendFront(list, record) == <<record>> \o list

AppendResult(list, record) == Append(list, record)

\* `continue`, and the end of a pass of the for loop.
NextEarthquake(list) ==
    /\ row' = row + 1
    /\ results' = list
    /\ UNCHANGED <<pc, error, cfg, eph, eq_df, new_moons, full_moons, perigees,
                   t, prev_dist, prev_time, history, df_new, df_full,
                   df_new_tight, df_full_tight, written, probe>>

\* find_tidal_matches has no handler: a failed query ends the run.
QueryFailureSkipped(err) == NextEarthquake(results)

QueryFailure(err) == Raise(err)

PhaseList == IF pc = "match_new" THEN new_moons ELSE full_moons
PhaseName == IF pc = "match_new" THEN "New Moon" ELSE "Full Moon"

MatchRecord(qt, phase, pg, moon_sp, sun_sp) ==
    [phase |-> PhaseName,
     row |-> row,
     quake_time |-> qt,
     phase_time |-> phase.time,
     phase_offset_hours |-> Ratio(phase.sec, HourSeconds),
     perigee_time |-> pg.time,
     perigee_offset_days |-> Ratio(pg.sec, DaySeconds),
     sublunar_lat |-> moon_sp.lat,
     sublunar_lon |-> moon_sp.lon,
     subsolar_lat |-> sun_sp.lat,
     subsolar_lon |-> sun_sp.lon,
     delta_lat |-> Abs(moon_sp.lat - sun_sp.lat)]

\* One pass of the for loop of find_tidal_matches, for the earthquake at `row`.
MatchStep ==
    /\ pc \in {"match_new", "match_full"}
    /\ error = "none"
    /\ row <= Len(eq_df.rows)
    /\ LET qt == eq_df.rows[row].quake_time
           phase == nearest_time(qt, PhaseList)
           pg == nearest_time(qt, perigees)
           at == AlignmentTime(qt, phase.time, pg.time)
           moon_sp == subpoint("moon", at)
           sun_sp == subpoint("sun", at)
       IN IF phase.raised THEN QueryFailure("ValueError")
          ELSE IF OutsideWindow(phase.sec, NEW_MOON_WINDOW_HOURS * HourSeconds)
          THEN NextEarthquake(results)
          ELSE IF pg.raised THEN QueryFailure("ValueError")
          ELSE IF OutsideWindow(pg.sec, PERIGEE_WINDOW_DAYS * DaySeconds)
          THEN NextEarthquake(results)
          ELSE IF moon_sp.raised \/ sun_sp.raised
          THEN QueryFailure("EphemerisRangeError")
          ELSE NextEarthquake(
                   AppendResult(results, MatchRecord(qt, phase, pg, moon_sp, sun_sp)))

\* return pd.DataFrame(results), assigned to df_new or df_full.
MatchReturn ==
    /\ pc \in {"match_new", "match_full"}
    /\ error = "none"
    /\ row > Len(eq_df.rows)
    /\ IF pc = "match_new"
       THEN /\ df_new' = DataFrame(results)
            /\ pc' = "match_full"
            /\ UNCHANGED df_full
       ELSE /\ df_full' = DataFrame(results)
            /\ pc' = "filter_new"
            /\ UNCHANGED df_new
    /\ row' = 1
    /\ results' = <<>>
    /\ UNCHANGED <<error, cfg, eph, eq_df, new_moons, full_moons, perigees, t,
                   prev_dist, prev_time, history, df_new_tight, df_full_tight,
                   written, probe>>

-----------------------------------------------------------------------------
(* Filter tight alignments; save results                                   *)

IsTightStrict(delta_lat) == delta_lat < DELTA_LAT_THRESHOLD

IsTight(delta_lat) == delta_lat <= DELTA_LAT_THRESHOLD

\* df[df["delta_lat"] <= DELTA_LAT_THRESHOLD]
TightRows(df) ==
    [columns |-> df.columns,
     rows |-> SelectSeq(df.rows, LAMBDA r : IsTight(r.delta_lat))]

\* Line 172.  A frame built from an empty list has no columns.
FilterNewTight ==
    /\ Running("filter_new")
    /\ IF "delta_lat" \notin df_new.columns
       THEN Raise("KeyError")
       ELSE /\ df_new_tight' = TightRows(df_new)
            /\ pc' = "filter_full"
            /\ UNCHANGED <<error, cfg, eph, eq_df, new_moons, full_moons,
                           perigees, t, prev_dist, prev_time, history, row,
                           results, df_new, df_full, df_full_tight, written,
                           probe>>

\* Line 173.
FilterFullTight ==
    /\ Running("filter_full")
    /\ IF "delta_lat" \notin df_full.columns
       THEN Raise("KeyError")
       ELSE /\ df_full_tight' = TightRows(df_full)
            /\ pc' = "save"
            /\ UNCHANGED <<error, cfg, eph, eq_df, new_moons, full_moons,
                           perigees, t, prev_dist, prev_time, history, row,
                           results, df_new, df_full, df_new_tight, written,
                           probe>>

OutputFiles ==
    <<"new_moon_perigee_earthquakes.csv",
      "full_moon_perigee_earthquakes.csv",
      "tight_new_moon_perigee_earthquakes.csv",
      "tight_full_moon_perigee_earthquakes.csv">>

\* Lines 178-181: the four to_csv calls.
SaveResults ==
    /\ Running("save")
    /\ written' = OutputFiles
    /\ pc' = "done"
    /\ UNCHANGED <<error, cfg, eph, eq_df, new_moons, full_moons, perigees, t,
                   prev_dist, prev_time, history, row, results, df_new,
                   df_full, df_new_tight, df_full_tight, probe>>

-----------------------------------------------------------------------------
(* A call of nearest_time on its own                                       *)

ProbeInstants == 0..MaxProbeTime

\* Event sequences as the script builds them: in ascending order.
ProbeLists ==
    {s \in SeqsUpTo(ProbeInstants, MaxProbeLen) :
        \A i \in 1..(Len(s) - 1) : s[i] <= s[i+1]}

NearestCall ==
    /\ Running("nearest_time")
    /\ probe.result = None
    /\ probe' = [probe EXCEPT
                    !.result = Some(nearest_time(probe.target, probe.time_list))]
    /\ UNCHANGED <<pc, error, cfg, eph, eq_df, new_moons, full_moons, perigees,
                   t, prev_dist, prev_time, history, row, results, df_new,
                   df_full, df_new_tight, df_full_tight, written>>

-----------------------------------------------------------------------------
(* Specifications                                                          *)

Config == [start |-> START_DATE, end |-> END_DATE, step |-> StepSeconds]

NoProbe == [target |-> 0, time_list |-> <<>>, result |-> None]

InitCommon ==
    /\ error = "none"
    /\ eq_df = NoFrame
    /\ new_moons = <<>>
    /\ full_moons = <<>>
    /\ perigees = <<>>
    /\ prev_dist = None
    /\ prev_time = None
    /\ row = 1
    /\ results = <<>>
    /\ df_new = NoFrame
    /\ df_full = NoFrame
    /\ df_new_tight = NoFrame
    /\ df_full_tight = NoFrame
    /\ written = <<>>

\* The script, run from its first line with the configuration it states.
Init ==
    /\ InitCommon
    /\ pc = "load_earthquakes"
    /\ cfg = Config
    /\ eph = [lo |-> 0, hi |-> 0, km |-> {}]
    /\ t = cfg.start
    /\ history = [on |-> FALSE, samples |-> <<>>]
    /\ probe = NoProbe

Next ==
    \/ LoadEarthquakes
    \/ LoadEphemeris
    \/ ComputePhases
    \/ SweepStep
    \/ SweepDone
    \/ MatchStep
    \/ MatchReturn
    \/ FilterNewTight
    \/ FilterFullTight
    \/ SaveResults

Spec == Init /\ [][Next]_vars

\* The perigee sweep alone, over configurations the script's constants could
\* be set to, with the sampled distances kept.
SweepConfigs ==
    [start : {START_DATE},
     end : {START_DATE - StepSeconds, START_DATE + SweepSamples * StepSeconds},
     step : {-StepSeconds, 0, StepSeconds}]

SweepInit ==
    /\ InitCommon
    /\ pc = "perigees"
    /\ cfg \in SweepConfigs
    /\ eph = [lo |-> START_DATE - 2 * StepSeconds,
              hi |-> START_DATE + (SweepSamples + 1) * StepSeconds,
              km |-> 1..SweepDist]
    /\ t = cfg.start
    /\ history = [on |-> TRUE, samples |-> <<>>]
    /\ probe = NoProbe

SweepNext == SweepStep \/ SweepDone

SweepSpec == SweepInit /\ [][SweepNext]_vars

\* nearest_time alone, over bounded arguments.
NearestInit ==
    /\ InitCommon
    /\ pc = "nearest_time"
    /\ cfg = Config
    /\ eph = [lo |-> 0, hi |-> 0, km |-> {}]
    /\ t = cfg.start
    /\ history = [on |-> FALSE, samples |-> <<>>]
    /\ probe \in [target : ProbeInstants, time_list : ProbeLists, result : {None}]

NearestNext == NearestCall

NearestSpec == NearestInit /\ [][NearestNext]_vars

-----------------------------------------------------------------------------
(* Properties                                                              *)

Sections ==
    <<"load_earthquakes", "load_ephemeris", "moon_phases", "perigees",
      "match_new", "match_full", "filter_new", "filter_full", "save", "done">>

Position(section) == CHOOSE i \in 1..Len(Sections) : Sections[i] = section

\* The script has left `section` behind.
After(section) == Position(pc) > Position(section)

Passes == {"match_new", "match_full"}

PhasesOf(pass) == IF pass = "match_new" THEN new_moons ELSE full_moons

\* The earthquakes a matching pass has dealt with, and the records it has
\* produced for them.
Processed(pass) ==
    IF pc = pass THEN row - 1
    ELSE IF After(pass) THEN Len(eq_df.rows) ELSE 0

Output(pass) ==
    IF pc = pass THEN results
    ELSE IF ~After(pass) THEN <<>>
    ELSE IF pass = "match_new" THEN df_new.rows ELSE df_full.rows

HasRecord(pass, k) == \E j \in 1..Len(Output(pass)) : Output(pass)[j].row = k

\* Some event of the sequence lies within `window` seconds of qt.
WithinWindow(qt, events, window) ==
    \E i \in 1..Len(events) : Abs(qt - events[i]) <= window

Qualifies(pass, k) ==
    LET qt == eq_df.rows[k].quake_time
    IN /\ WithinWindow(qt, PhasesOf(pass), NEW_MOON_WINDOW_HOURS * 3600)
       /\ WithinWindow(qt, perigees, PERIGEE_WINDOW_DAYS * 86400)

\* C1: an earthquake a matching pass has dealt with has a Match Record if and
\* only if a phase event lies within 36 h of it and a perigee within 2 days,
\* both bounds included.
C1_WindowFilterExact ==
    \A pass \in Passes : \A k \in 1..Processed(pass) :
        HasRecord(pass, k) <=> Qualifies(pass, k)

\* An earthquake exactly 36 h from the new moon and exactly 2 days from the
\* perigee has its record; one a second later has none.
C1_Witness ==
    /\ pc = "match_full"
    /\ \E j \in 1..Len(df_new.rows) :
          /\ df_new.rows[j].quake_time - df_new.rows[j].phase_time = 129600
          /\ df_new.rows[j].quake_time - df_new.rows[j].perigee_time = 172800
    /\ \E k \in 1..Len(eq_df.rows) :
          /\ eq_df.rows[k].quake_time = 172801
          /\ ~HasRecord("match_new", k)

\* C2: for a non-empty ascending time_list, nearest_time returns an element
\* of it at minimal absolute distance from the target, with that distance in
\* seconds, and of two equidistant elements the earlier one.
C2_NearestIsMinimalEarliest ==
    (probe.result # None /\ probe.time_list # <<>>) =>
        LET r == probe.result[1]
            S == Range(probe.time_list)
        IN /\ ~r.raised
           /\ r.time \in S
           /\ r.sec = Abs(probe.target - r.time)
           /\ \A s \in S : Abs(probe.target - s) >= r.sec
           /\ \A s \in S : Abs(probe.target - s) = r.sec => r.time <= s

\* A target exactly between two elements of the list.
C2_Witness ==
    /\ probe.result # None
    /\ probe.time_list # <<>>
    /\ \E s \in Range(probe.time_list) :
          /\ s > probe.result[1].time
          /\ Abs(probe.target - s) = probe.result[1].sec

\* The samples fall strictly to the m-th and rise strictly after it.
Unimodal(s, m) ==
    /\ \A i \in 1..(m - 1) : s[i] > s[i+1]
    /\ \A i \in m..(Len(s) - 1) : s[i] < s[i+1]

SweepFinished == pc = "match_new" /\ error = "none"

\* C3: when the sampled distances fall strictly to a single minimum and rise
\* strictly after it, the finished sweep reports exactly one perigee, the
\* sample at the minimum.
C3_SinglePerigee ==
    (SweepFinished /\ cfg.step > 0) =>
        \A m \in 1..(Len(history.samples) - 1) :
            Unimodal(history.samples, m) =>
                perigees = <<cfg.start + (m - 1) * cfg.step>>

\* C4: with end < start or a step <= 0 the sweep ends without an error and
\* with no perigee.
C4_BadConfigEmpty ==
    (cfg.end < cfg.start \/ cfg.step <= 0) =>
        (perigees = <<>> /\ error = "none")

\* C9: the sweep never reports its first sample nor its last, and the times
\* it reports are strictly increasing.
C9_NeverFirstNorLast ==
    cfg.step > 0 =>
        /\ \A i \in 1..Len(perigees) : perigees[i] # cfg.start
        /\ SweepFinished =>
              \A i \in 1..Len(perigees) : perigees[i] # prev_time[1]
        /\ \A i \in 1..(Len(perigees) - 1) : perigees[i] < perigees[i+1]

\* `tight` holds exactly the rows of `full` with delta_lat <= 10, in order.
TightOf(tight, full) ==
    /\ \A i \in 1..Len(full) :
          (full[i].delta_lat <= 10) <=> (\E j \in 1..Len(tight) : tight[j] = full[i])
    /\ \A j \in 1..Len(tight) : \E i \in 1..Len(full) : tight[j] = full[i]
    /\ \A i, j \in 1..Len(tight) : i < j => tight[i].row < tight[j].row

\* C5: once a tight table is computed, a Match Record is in it if and only if
\* its delta_lat is at most the threshold, and the tight table lists its
\* records in the order of the full table.
C5_TightIsThresholdSubsequence ==
    /\ After("filter_new") => TightOf(df_new_tight.rows, df_new.rows)
    /\ After("filter_full") => TightOf(df_full_tight.rows, df_full.rows)

\* A run that keeps a record at exactly 10 degrees and drops one at 11.
C5_Witness ==
    /\ pc = "done"
    /\ \E i, j \in 1..Len(df_new.rows) :
          /\ df_new.rows[i].delta_lat = 10
          /\ df_new.rows[j].delta_lat = 11
          /\ df_new_tight.rows = <<df_new.rows[i]>>

\* C6: the output of a matching pass holds at most one record per earthquake,
\* each of the pass's phase kind and of an earthquake of the catalog, in
\* catalog order.
C6_OnePerQuakeInCatalogOrder ==
    \A pass \in Passes :
        LET out == Output(pass)
        IN /\ \A i, j \in 1..Len(out) : i < j => out[i].row < out[j].row
           /\ \A i \in 1..Len(out) :
                 /\ out[i].row \in 1..Len(eq_df.rows)
                 /\ out[i].quake_time = eq_df.rows[out[i].row].quake_time
                 /\ out[i].phase =
                        (IF pass = "match_new" THEN "New Moon" ELSE "Full Moon")

\* Two earthquakes matched in the New-Moon pass, one of them in the
\* Full-Moon pass too.
C6_Witness ==
    /\ pc = "done"
    /\ Len(df_new.rows) = 2
    /\ \E i \in 1..Len(df_new.rows), j \in 1..Len(df_full.rows) :
          df_new.rows[i].row = df_full.rows[j].row

\* Every query a pass made for the earthquakes it has dealt with succeeded.
NoFailedQuery(pass) ==
    \A k \in 1..Processed(pass) :
        LET qt == eq_df.rows[k].quake_time
        IN /\ PhasesOf(pass) # <<>>
           /\ WithinWindow(qt, PhasesOf(pass), NEW_MOON_WINDOW_HOURS * 3600) =>
                 /\ perigees # <<>>
                 /\ WithinWindow(qt, perigees, PERIGEE_WINDOW_DAYS * 86400) =>
                       \A i \in 1..Len(perigees) : EphCovers(perigees[i])

\* C7: a pass goes past an earthquake only when its queries succeeded (a
\* lookup in an empty sequence or a failed sub-point query ends the run
\* there), and a run ended by an error has written no output table.
C7_QueryFailureIsFatal ==
    /\ \A pass \in Passes : NoFailedQuery(pass)
    /\ error # "none" => written = <<>>
    /\ written # <<>> => (pc = "done" /\ error = "none")

\* The Full-Moon pass fails on an empty sequence after the New-Moon pass
\* produced records, and nothing is written.
C7_Witness ==
    /\ error = "ValueError"
    /\ pc = "match_full"
    /\ full_moons = <<>>
    /\ df_new.rows # <<>>
    /\ written = <<>>

AllRecords ==
    Range(results) \cup Range(df_new.rows) \cup Range(df_full.rows)
    \cup Range(df_new_tight.rows) \cup Range(df_full_tight.rows)

C10_EmptyMatchCompletes ==
    (\/ After("match_new") /\ df_new.rows = <<>>
     \/ After("match_full") /\ df_full.rows = <<>>) => error = "none"

====
